---- MODULE Spec2Model ----
(***************************************************************************)
(* Model of rspc's composable router builder, rspc/src/router.rs           *)
(* (Router2): procedure / setup / nest / merge / build.                    *)
(*                                                                         *)
(* A path is a sequence of segments (Vec<Cow<str>>); a segment is a        *)
(* string.  The procedure map is a BTreeMap keyed by paths, modelled as a  *)
(* function whose DOMAIN is the key set; iteration is in BTreeMap order    *)
(* (lexicographic on the segment sequence, segments compared as strings).  *)
(***************************************************************************)
EXTENDS Integers, Sequences, FiniteSets, TLC

(***************************************************************************)
(* Bounds                                                                  *)
(***************************************************************************)
\* number of builder calls (procedure / setup / nest / merge) in one run
MaxSteps == 4

(***************************************************************************)
(* Inputs                                                                  *)
(***************************************************************************)
\* segment names a caller passes as `key` / `prefix`: any string is legal,
\* one that contains the '.' of get_flattened_name included
Segs == {"a", "a.a"}

\* byte-wise string order of the segment names, as BTreeMap's Ord sees them:
\* "a" is a proper prefix of "a.a" and sorts first
SegRank == [s \in Segs |-> IF s = "a" THEN 1 ELSE 2]

\* identities of setup closures
Callbacks == {1, 2}

\* the procedures a caller registers: a type descriptor, the handler
\* constructor and the procedure's own deferred setup callbacks
Procs == { [ty |-> "q", inner |-> 1, setup |-> << >>],
           [ty |-> "m", inner |-> 2, setup |-> <<2>>] }

\* the two router values of a call `self.nest(prefix, other)` / `self.merge(other)`
Slots == {"self", "other"}

VARIABLES routers, last, prev, built, steps, registry, calls, exported, export_log

vars == <<routers, last, prev, built, steps, registry, calls, exported, export_log>>

\* the builder chain, and the built legacy router with its calls and export
bvars == <<routers, last, prev, built, steps>>

lvars == <<registry, calls, exported, export_log>>

(***************************************************************************)
(* Router2::default / Router2::new                                         *)
(***************************************************************************)
NewRouter == [setup |-> << >>, types |-> {}, procedures |-> << >>, errors |-> << >>]

\* Error::DuplicateProcedures(path)
DuplicateProcedures(path) == [DuplicateProcedures |-> path]

\* self.procedures.keys().any(|k| k[0] == key)
HasTopLevel(r, key) == \E k \in DOMAIN r.procedures : k[1] = key

\* BTreeMap::insert / BTreeMap::extend: entries of `new` replace equal keys
Extend(old, new) ==
    [k \in (DOMAIN old) \cup (DOMAIN new) |->
        IF k \in DOMAIN new THEN new[k] ELSE old[k]]

(***************************************************************************)
(* Ord for Vec<Cow<str>>: lexicographic, a proper prefix sorts first       *)
(***************************************************************************)
RECURSIVE PathLess(_, _)
PathLess(p, q) ==
    IF p = << >> THEN q # << >>
    ELSE IF q = << >> THEN FALSE
    ELSE IF Head(p) = Head(q) THEN PathLess(Tail(p), Tail(q))
    ELSE SegRank[Head(p)] < SegRank[Head(q)]

\* the keys of a BTreeMap in iteration order
RECURSIVE SortedKeys(_)
SortedKeys(S) ==
    IF S = {} THEN << >>
    ELSE LET m == CHOOSE k \in S : \A o \in S \ {k} : PathLess(k, o)
         IN  <<m>> \o SortedKeys(S \ {m})

\* the subsequence of s whose elements satisfy membership in T
RECURSIVE SelectIn(_, _)
SelectIn(s, T) ==
    IF s = << >> THEN << >>
    ELSE (IF Head(s) \in T THEN <<Head(s)>> ELSE << >>) \o SelectIn(Tail(s), T)

(***************************************************************************)
(* Variant of procedure that looks for the exact key [key] instead of the *)
(* first segment of every key.                                            *)
(***************************************************************************)
ProcedureOfExactKey(r, key, procedure) ==
    IF <<key>> \in DOMAIN r.procedures
    THEN [r EXCEPT !.errors = Append(@, DuplicateProcedures(<<key>>))]
    ELSE [r EXCEPT !.setup = @ \o procedure.setup,
                   !.procedures = Extend(@, (<<key>> :> procedure))]

(***************************************************************************)
(* Router2::procedure                                                      *)
(***************************************************************************)
ProcedureOf(r, key, procedure) ==
    IF HasTopLevel(r, key)
    THEN [r EXCEPT !.errors = Append(@, DuplicateProcedures(<<key>>))]
    ELSE [r EXCEPT !.setup = @ \o procedure.setup,
                   !.procedures = Extend(@, (<<key>> :> procedure))]

(***************************************************************************)
(* Router2::setup                                                          *)
(***************************************************************************)
SetupOf(r, func) == [r EXCEPT !.setup = Append(@, func)]

(***************************************************************************)
(* Variants of nest: one that rejects only when a prefixed path is already *)
(* held (a deep check), one that puts other's callbacks first.             *)
(***************************************************************************)
NestOfDeepCheck(r, prefix, other) ==
    IF \E k \in DOMAIN other.procedures : (<<prefix>> \o k) \in DOMAIN r.procedures
    THEN [r EXCEPT !.errors = Append(@, DuplicateProcedures(<<prefix>>))]
    ELSE [r EXCEPT
            !.setup = @ \o other.setup,
            !.procedures =
                Extend(@, [nk \in {<<prefix>> \o k : k \in DOMAIN other.procedures}
                             |-> other.procedures[Tail(nk)]]),
            !.errors = @ \o [i \in 1..Len(other.errors) |->
                DuplicateProcedures(<<prefix>> \o other.errors[i].DuplicateProcedures)]]

NestOfSetupFirst(r, prefix, other) ==
    IF HasTopLevel(r, prefix)
    THEN [r EXCEPT !.errors = Append(@, DuplicateProcedures(<<prefix>>))]
    ELSE [r EXCEPT
            !.setup = other.setup \o @,
            !.procedures =
                Extend(@, [nk \in {<<prefix>> \o k : k \in DOMAIN other.procedures}
                             |-> other.procedures[Tail(nk)]]),
            !.errors = @ \o [i \in 1..Len(other.errors) |->
                DuplicateProcedures(<<prefix>> \o other.errors[i].DuplicateProcedures)]]

\* variant of nest that takes other's callbacks before the duplicate check
NestOfSetupBeforeCheck(r, prefix, other) ==
    IF HasTopLevel(r, prefix)
    THEN [r EXCEPT !.setup = @ \o other.setup,
                   !.errors = Append(@, DuplicateProcedures(<<prefix>>))]
    ELSE [r EXCEPT
            !.setup = @ \o other.setup,
            !.procedures =
                Extend(@, [nk \in {<<prefix>> \o k : k \in DOMAIN other.procedures}
                             |-> other.procedures[Tail(nk)]]),
            !.errors = @ \o [i \in 1..Len(other.errors) |->
                DuplicateProcedures(<<prefix>> \o other.errors[i].DuplicateProcedures)]]

(***************************************************************************)
(* Router2::nest                                                           *)
(***************************************************************************)
NestOf(r, prefix, other) ==
    IF HasTopLevel(r, prefix)
    THEN [r EXCEPT !.errors = Append(@, DuplicateProcedures(<<prefix>>))]
    ELSE [r EXCEPT
            !.setup = @ \o other.setup,
            !.procedures =
                Extend(@, [nk \in {<<prefix>> \o k : k \in DOMAIN other.procedures}
                             |-> other.procedures[Tail(nk)]]),
            !.errors = @ \o [i \in 1..Len(other.errors) |->
                DuplicateProcedures(<<prefix>> \o other.errors[i].DuplicateProcedures)]]

(***************************************************************************)
(* Router2::merge                                                          *)
(***************************************************************************)
\* variant of the loop with the test inverted: an error per key NOT in self
MergeConflictsInverted(r, other) ==
    LET ks == SortedKeys(DOMAIN other.procedures)
        hit == SelectIn(ks, (DOMAIN other.procedures) \ (DOMAIN r.procedures))
    IN  [i \in 1..Len(hit) |-> DuplicateProcedures(hit[i])]

\* the loop of lines 98-103: one error per key of `other` already in self
MergeConflicts(r, other) ==
    LET ks == SortedKeys(DOMAIN other.procedures)
        hit == SelectIn(ks, DOMAIN r.procedures)
    IN  [i \in 1..Len(hit) |-> DuplicateProcedures(hit[i])]

\* variant of merge that absorbs other whether or not a conflict was found
MergeOfAbsorbAlways(r, other) ==
    [r EXCEPT !.setup = @ \o other.setup,
              !.procedures = Extend(@, other.procedures),
              !.errors = @ \o MergeConflicts(r, other) \o other.errors]

MergeOf(r, other) ==
    LET error_count == Len(r.errors)
        errs == r.errors \o MergeConflicts(r, other)
    IN  IF Len(errs) > error_count
        THEN [r EXCEPT !.setup = @ \o other.setup,
                       !.procedures = Extend(@, other.procedures),
                       !.errors = errs \o other.errors]
        ELSE [r EXCEPT !.errors = errs]

(***************************************************************************)
(* get_flattened_name                                                      *)
(***************************************************************************)
\* [T]::join(".")
RECURSIVE Join(_)
Join(name) ==
    IF Len(name) = 0 THEN ""
    ELSE IF Len(name) = 1 THEN name[1]
    ELSE name[1] \o "." \o Join(Tail(name))

get_flattened_name(name) ==
    IF Len(name) = 1 THEN name[1] ELSE Join(name)

(***************************************************************************)
(* Router2::build / build_with_state_inner                                 *)
(*                                                                         *)
(* State is opaque to the router: a setup callback may do anything to it.  *)
(* It is modelled as the sequence of callbacks applied to it so far, the   *)
(* most general observation of "which callbacks ran, in which order".      *)
(***************************************************************************)
\* State::default()
DefaultState == << >>

\* absent part of a Result
None == "none"

\* setup(&mut state) for one callback
ApplySetup(state, func) == Append(state, func)

\* variant of the setup loop that runs the callbacks last to first
RECURSIVE RunSetupReversed(_, _)
RunSetupReversed(setup, state) ==
    IF setup = << >> THEN state
    ELSE ApplySetup(RunSetupReversed(Tail(setup), state), Head(setup))

\* for setup in self.setup { setup(&mut state); }
RECURSIVE RunSetup(_, _)
RunSetup(setup, state) ==
    IF setup = << >> THEN state
    ELSE RunSetup(Tail(setup), ApplySetup(state, Head(setup)))

\* the events of the setup loop, one per callback run
SetupEvents(setup) == [i \in 1..Len(setup) |-> [ev |-> "setup", arg |-> setup[i]]]

\* (p.inner)(state.clone()): the handler bound to the frozen state
Instantiate(p, state) == [inner |-> p.inner, state |-> state]

\* proper, non-empty prefixes of a key: key[..(key.len() - 1)] walked part by part
Parents(key) == {SubSeq(key, 1, n) : n \in 1..(Len(key) - 1)}

\* is p a proper prefix of q
IsProperPrefix(p, q) == Len(p) < Len(q) /\ SubSeq(q, 1, Len(p)) = p

\* The nested BTreeMap<_, TypesOrType> is held as a map from the path of a
\* node to the node: TypesOrType::Types (a group) or TypesOrType::Type(ty).
\* One iteration of the closure of lines 163-178 on the tree.
TreeHitsLeaf(tree, key) ==
    \E par \in Parents(key) : par \in DOMAIN tree /\ tree[par].kind = "Type"

\* variant of the tree walk that does not descend: the leaf goes under its
\* last segment at the root
TreeInsertAtRoot(tree, key, ty) ==
    Extend(tree, (<<key[Len(key)]>> :> [kind |-> "Type", ty |-> ty]))

TreeInsert(tree, key, ty) ==
    LET groups == [par \in Parents(key) \ DOMAIN tree |-> [kind |-> "Types", ty |-> None]]
        kept   == {k \in DOMAIN tree : ~IsProperPrefix(key, k)}
        base   == [k \in kept |-> tree[k]]
    IN  Extend(Extend(base, groups), (key :> [kind |-> "Type", ty |-> ty]))

\* the map(...).collect() of lines 160-179 over the keys in BTreeMap order;
\* acc carries the type tree, the HashMap being collected, the events and
\* whether unreachable!() was hit
RECURSIVE Walk(_, _, _, _)
Walk(keys, procedures, state, acc) ==
    IF keys = << >> \/ acc.panicked THEN acc
    ELSE LET key == Head(keys)
             p   == procedures[key]
         IN  IF TreeHitsLeaf(acc.tree, key)
             THEN [acc EXCEPT !.panicked = TRUE]
             ELSE Walk(Tail(keys), procedures, state,
                    [acc EXCEPT
                       !.tree  = TreeInsert(@, key, p.ty),
                       !.store = Extend(@, (get_flattened_name(key) :> Instantiate(p, state))),
                       !.log   = Append(@, [ev |-> "instantiate", arg |-> key])])

\* variant of build that reports only the first error
build_first_error(r, state0) ==
    IF Len(r.errors) > 0
    THEN [status |-> "err", errors |-> <<Head(r.errors)>>, procedures |-> None,
          types |-> None, state |-> None, log |-> << >>]
    ELSE LET state == RunSetup(r.setup, state0)
             log0  == Append(SetupEvents(r.setup), [ev |-> "freeze", arg |-> None])
             acc   == Walk(SortedKeys(DOMAIN r.procedures), r.procedures, state,
                           [tree |-> << >>, store |-> << >>, log |-> log0,
                            panicked |-> FALSE])
         IN  [status |-> "ok", errors |-> None, procedures |-> acc.store,
              types |-> [types |-> r.types, procedures |-> acc.tree],
              state |-> state, log |-> acc.log]

build_with_state_inner(r, state0) ==
    IF Len(r.errors) > 0
    THEN [status |-> "err", errors |-> r.errors, procedures |-> None,
          types |-> None, state |-> None, log |-> << >>]
    ELSE LET state == RunSetup(r.setup, state0)
             log0  == Append(SetupEvents(r.setup), [ev |-> "freeze", arg |-> None])
             acc   == Walk(SortedKeys(DOMAIN r.procedures), r.procedures, state,
                           [tree |-> << >>, store |-> << >>, log |-> log0,
                            panicked |-> FALSE])
         IN  IF acc.panicked
             THEN [status |-> "panic", errors |-> None, procedures |-> None,
                   types |-> None, state |-> state, log |-> acc.log]
             ELSE [status |-> "ok", errors |-> None, procedures |-> acc.store,
                   types |-> [types |-> r.types, procedures |-> acc.tree],
                   state |-> state, log |-> acc.log]

\* Router2::build
build(r) == build_with_state_inner(r, DefaultState)

(***************************************************************************)
(* The built legacy router, crates/legacy/src/router.rs: three stores, one *)
(* per kind, each a BTreeMap<String, Procedure>.  A Procedure is its       *)
(* handler (`exec`) and its type (`ty`).  What a handler does is an input: *)
(* it fails at the call, fails while its outcome is awaited, or resolves   *)
(* to a ValueOrStream::Value or a ValueOrStream::Stream.                   *)
(***************************************************************************)
\* most operations a registry holds
MaxOps == 2

\* calls of export_ts on one path
MaxExports == 2

\* ProcedureKind
Kinds == {"Query", "Mutation", "Subscription"}

\* operation keys
OpKeys == {"k1", "k2"}

\* what a handler does when called
Behaviours == {"call_err", "await_err", "value", "stream"}

\* Option<Value> inputs of exec / exec_subscription
OptInputs == {"None", "x"}

\* TArg of exec_query: a serde_json Value, or a typed argument
ArgInputs == {"x", "typed"}

\* the calls in flight
Calls == {"c1", "c2"}

\* Config::bindings_header
Headers == {"None", "// header"}

\* the order in which a BTreeMap<String, _> iterates over the operation keys
KeyOrder == <<"k1", "k2">>

\* DataType of an operation's argument: (), String, a named type, i64
ArgTypes == {"Unit", "String", "MyCustomType", "i64"}

\* DataType of an operation's result
ResultTypes == {"String", "i64"}

\* the named types, in the order of the TypeCollection
NamedTypes == <<"MyCustomType">>

\* Router::type_map: the named types the operations refer to
TypeMapOf(ops) ==
    SelectSeq(NamedTypes,
              LAMBDA t : \E o \in DOMAIN ops : ops[o].arg_ty = t \/ ops[o].result_ty = t)

\* a Procedure registered under (kind, key)
MkProcedure(kind, key, shape) ==
    [exec |-> [by |-> <<kind, key>>, behaviour |-> shape.behaviour],
     ty   |-> [arg_ty |-> shape.arg_ty, result_ty |-> shape.result_ty]]

\* one store of the router: the operations of `ops` registered under kind
StoreOf(ops, kind) ==
    [key \in {k \in OpKeys : <<kind, k>> \in DOMAIN ops} |->
        MkProcedure(kind, key, ops[<<kind, key>>])]

\* struct Router { config, queries, mutations, subscriptions, type_map }
MkRouter(ops, header) ==
    [config        |-> [bindings_header |-> header],
     queries       |-> [store |-> StoreOf(ops, "Query")],
     mutations     |-> [store |-> StoreOf(ops, "Mutation")],
     subscriptions |-> [store |-> StoreOf(ops, "Subscription")],
     type_map      |-> TypeMapOf(ops)]

\* the routers with at most MaxOps operations, shapes and header drawn from sets
Routers(shapes, headers) ==
    {MkRouter(ops, h) :
        ops \in UNION {[S -> shapes] :
                  S \in {T \in SUBSET (Kinds \X OpKeys) : Cardinality(T) <= MaxOps}},
        h \in headers}

\* Result::Ok / Result::Err
Ok(v) == [tag |-> "Ok", body |-> v]

Err(e) == [tag |-> "Err", body |-> e]

\* ExecError::OperationNotFound(key) / ExecError::UnsupportedMethod(key)
OperationNotFound(key) == [type |-> "OperationNotFound", key |-> key]

UnsupportedMethod(key) == [type |-> "UnsupportedMethod", key |-> key]

\* an error made by a handler: which handler, and at which stage
HandlerError(by, stage) == [type |-> "HandlerError", by |-> by, stage |-> stage]

\* input.unwrap_or(Value::Null)
UnwrapOrNull(input) == IF input = "None" THEN "null" ELSE input

\* RequestContext { kind, path }
RequestContext(kind, key) == [kind |-> kind, path |-> key]

\* procedure.exec.call(ctx, input, req): fails, or returns the pending outcome
HandlerCall(procedure, input, req) ==
    IF procedure.exec.behaviour = "call_err"
    THEN Err(HandlerError(procedure.exec.by, "call"))
    ELSE Ok([by |-> procedure.exec.by, behaviour |-> procedure.exec.behaviour,
             input |-> input, req |-> req])

\* .into_value_or_stream().await on a pending outcome
IntoValueOrStream(fut) ==
    IF fut.behaviour = "await_err"
    THEN Err(HandlerError(fut.by, "await"))
    ELSE Ok([type |-> IF fut.behaviour = "stream" THEN "Stream" ELSE "Value",
             by |-> fut.by, input |-> fut.input, req |-> fut.req])

\* a call that has not started, and the parts of a call's state
NoRequest == [entry |-> "none", kind |-> "none", key |-> "none", input |-> "none"]

NoFuture == [by |-> <<"none", "none">>, behaviour |-> "none", input |-> "none",
             req |-> RequestContext("none", "none")]

NoResult == [tag |-> "none", body |-> "none"]

IdleCall == [pc |-> "idle", req |-> NoRequest, fut |-> NoFuture,
             invoked |-> << >>, result |-> NoResult]

\* the state of a call that returned at once / that waits for its outcome
Returned(req, invoked, result) ==
    [pc |-> "done", req |-> req, fut |-> NoFuture, invoked |-> invoked,
     result |-> result]

Awaiting(req, fut) ==
    [pc |-> "awaiting", req |-> req, fut |-> fut, invoked |-> <<fut.by>>,
     result |-> NoResult]

(***************************************************************************)
(* Router::exec                                                            *)
(***************************************************************************)
\* variant of the store choice that searches the stores of all kinds, the
\* requested kind first
ExecStoreUnified(router, kind) ==
    LET own == IF kind = "Query" THEN router.queries.store
               ELSE router.mutations.store
    IN  Extend(Extend(router.subscriptions.store,
                      Extend(router.queries.store, router.mutations.store)), own)

\* variant of the store choice with the two arms swapped
ExecStoreSwapped(router, kind) ==
    IF kind = "Query" THEN router.mutations.store ELSE router.queries.store

\* lines 58-61: the store matching the requested kind
ExecStore(router, kind) ==
    IF kind = "Query" THEN router.queries.store ELSE router.mutations.store

\* variant of the call that reports a failed handler call as a lookup miss
ExecBeginMasksError(router, req) ==
    LET operations == ExecStore(router, req.kind)
    IN  IF req.key \notin DOMAIN operations
        THEN Returned(req, << >>, Err(OperationNotFound(req.key)))
        ELSE LET r == HandlerCall(operations[req.key], UnwrapOrNull(req.input),
                                  RequestContext(req.kind, req.key))
             IN  IF r.tag = "Err"
                 THEN Returned(req, <<operations[req.key].exec.by>>,
                               Err(OperationNotFound(req.key)))
                 ELSE Awaiting(req, r.body)

\* lines 63-74: lookup and handler call, up to the first suspension
ExecBegin(router, req) ==
    LET operations == ExecStore(router, req.kind)
    IN  IF req.key \notin DOMAIN operations
        THEN Returned(req, << >>, Err(OperationNotFound(req.key)))
        ELSE LET r == HandlerCall(operations[req.key], UnwrapOrNull(req.input),
                                  RequestContext(req.kind, req.key))
             IN  IF r.tag = "Err"
                 THEN Returned(req, <<operations[req.key].exec.by>>, r)
                 ELSE Awaiting(req, r.body)

\* variant of the outcome match with the arms swapped
ExecEndSwapped(call) ==
    LET r == IntoValueOrStream(call.fut)
    IN  Returned(call.req, call.invoked,
            IF r.tag = "Err" THEN r
            ELSE IF r.body.type = "Value" THEN Err(UnsupportedMethod(call.req.key))
            ELSE Ok(r.body))

\* lines 75-80: the outcome is awaited and matched
ExecEnd(call) ==
    LET r == IntoValueOrStream(call.fut)
    IN  Returned(call.req, call.invoked,
            IF r.tag = "Err" THEN r
            ELSE IF r.body.type = "Value" THEN Ok(r.body)
            ELSE Err(UnsupportedMethod(call.req.key)))

(***************************************************************************)
(* Router::exec_subscription                                               *)
(***************************************************************************)
\* variant of the lookup that reports a miss as UnsupportedMethod
ExecSubscriptionBeginMissUnsupported(router, req) ==
    LET operations == router.subscriptions.store
    IN  IF req.key \notin DOMAIN operations
        THEN Returned(req, << >>, Err(UnsupportedMethod(req.key)))
        ELSE LET r == HandlerCall(operations[req.key], UnwrapOrNull(req.input),
                                  RequestContext("Subscription", req.key))
             IN  IF r.tag = "Err"
                 THEN Returned(req, <<operations[req.key].exec.by>>, r)
                 ELSE Awaiting(req, r.body)

\* lines 89-102
ExecSubscriptionBegin(router, req) ==
    LET operations == router.subscriptions.store
    IN  IF req.key \notin DOMAIN operations
        THEN Returned(req, << >>, Err(OperationNotFound(req.key)))
        ELSE LET r == HandlerCall(operations[req.key], UnwrapOrNull(req.input),
                                  RequestContext("Subscription", req.key))
             IN  IF r.tag = "Err"
                 THEN Returned(req, <<operations[req.key].exec.by>>, r)
                 ELSE Awaiting(req, r.body)

\* variant of the outcome match that accepts a Value as well
ExecSubscriptionEndAcceptsValue(call) ==
    LET r == IntoValueOrStream(call.fut)
    IN  Returned(call.req, call.invoked, IF r.tag = "Err" THEN r ELSE Ok(r.body))

\* lines 103-108
ExecSubscriptionEnd(call) ==
    LET r == IntoValueOrStream(call.fut)
    IN  Returned(call.req, call.invoked,
            IF r.tag = "Err" THEN r
            ELSE IF r.body.type = "Value" THEN Err(UnsupportedMethod(call.req.key))
            ELSE Ok(r.body))

(***************************************************************************)
(* Router::exec_query of src/router.rs: the query operations are looked up *)
(* by key, the argument is passed as a wire value or boxed, and the        *)
(* handler's result is returned as it is.                                  *)
(***************************************************************************)
\* ExecError::OperationNotFound of src/router.rs carries no key
OperationNotFoundUnit == [type |-> "OperationNotFound"]

\* Operation::get(key)
OperationGet(operation, key) ==
    IF key \in DOMAIN operation THEN Ok(operation[key]) ELSE Err(OperationNotFoundUnit)

\* lines 59-71: TypeId::of::<TArg>() == TypeId::of::<Value>()
ToConcreteArg(arg) ==
    IF arg = "typed" THEN [variant |-> "Unknown", v |-> arg]
    ELSE [variant |-> "Value", v |-> arg]

\* lines 55-73, up to the first suspension
ExecQueryBegin(router, req) ==
    LET definition == OperationGet(router.queries.store, req.key)
    IN  IF definition.tag = "Err"
        THEN Returned(req, << >>, definition)
        ELSE LET r == HandlerCall(definition.body, ToConcreteArg(req.input),
                                  RequestContext("Query", req.key))
             IN  IF r.tag = "Err"
                 THEN Returned(req, <<definition.body.exec.by>>, r)
                 ELSE Awaiting(req, r.body)

\* line 73: `.await`
ExecQueryEnd(call) ==
    Returned(call.req, call.invoked, IntoValueOrStream(call.fut))

(***************************************************************************)
(* Router::export_ts and generate_procedures_ts.  A text is a sequence of  *)
(* pieces; the text itself is the concatenation of its pieces.             *)
(***************************************************************************)
\* lines 169-173: Typescript::new().bigint(FailWithReason(..))
BigIntReason == "rspc does not support exporting bigint types"

TypescriptConfig == [bigint |-> [behavior |-> "FailWithReason", reason |-> BigIntReason]]

\* line 167
Notice == "// This file was generated by [rspc](https://github.com/specta-rs/rspc). Do not edit this file manually."

\* specta_typescript::datatype: the rendering of a type, or the bigint error
datatype(config, ty) ==
    CASE ty = "i64" ->
            IF config.bigint.behavior = "FailWithReason"
            THEN Err(config.bigint.reason) ELSE Ok("bigint")
      [] ty = "Unit" -> Ok("null")
      [] ty = "String" -> Ok("string")
      [] OTHER -> Ok(ty)

\* specta_typescript::export_named_datatype
export_named_datatype(config, ty) == Ok("export type " \o ty \o " = string")

\* the outcome of a rendering step: the text, or the panic of an unwrap()
Rendered(ts) == [status |-> "ok", ts |-> ts, reason |-> "none"]

Panicked(reason) == [status |-> "panic", ts |-> << >>, reason |-> reason]

\* variant of the input rendering without the empty-tuple arm
InputTsNoSpecialCase(config, arg_ty) == datatype(config, arg_ty)

\* lines 215-224: the rendering of the input type
InputTs(config, arg_ty) ==
    IF arg_ty = "Unit" THEN Ok("never") ELSE datatype(config, arg_ty)

\* lines 214-237: the record of one operation
RecordTs(config, key, operation) ==
    LET input == InputTs(config, operation.ty.arg_ty)
        result_ts == datatype(config, operation.ty.result_ty)
    IN  IF input.tag = "Err" THEN Panicked(input.body)
        ELSE IF result_ts.tag = "Err" THEN Panicked(result_ts.body)
        ELSE Rendered(<<"\n        { key: \"", key, "\", input: ", input.body,
                        ", result: ", result_ts.body, " }">>)

\* Vec<String>::join(sep)
RECURSIVE JoinTs(_, _)
JoinTs(parts, sep) ==
    IF parts = << >> THEN << >>
    ELSE IF Len(parts) = 1 THEN parts[1]
    ELSE parts[1] \o <<sep>> \o JoinTs(Tail(parts), sep)

\* lines 212-240: the records of the operations in key order, joined
RecordsTs(config, procedures) ==
    LET keys == SelectSeq(KeyOrder, LAMBDA k : k \in DOMAIN procedures)
        recs == [i \in 1..Len(keys) |-> RecordTs(config, keys[i], procedures[keys[i]])]
        bad == {i \in 1..Len(keys) : recs[i].status = "panic"}
    IN  IF bad # {}
        THEN recs[CHOOSE i \in bad : \A j \in bad : i <= j]
        ELSE Rendered(JoinTs([i \in 1..Len(keys) |-> recs[i].ts], " | "))

\* variant of the rendering without the arm for an empty store
generate_procedures_ts_no_empty_arm(config, procedures) ==
    RecordsTs(config, procedures)

\* lines 205-242
generate_procedures_ts(config, procedures) ==
    IF Cardinality(DOMAIN procedures) = 0
    THEN Rendered(<<"never">>)
    ELSE RecordsTs(config, procedures)

\* the outcome of an export: how the call ended, and the file it left
Exported(status, file, reason) == [status |-> status, file |-> file, reason |-> reason]

\* lines 192-198: the declarations of the named types
TypeExports(config, type_map) ==
    [i \in 1..Len(type_map) |-> export_named_datatype(config, type_map[i])]

RECURSIVE TypeExportLines(_)
TypeExportLines(exports) ==
    IF exports = << >> THEN << >>
    ELSE <<"\n", exports[1].body, "\n">> \o TypeExportLines(Tail(exports))

\* variant of the export that writes the notice before the header
export_ts_notice_first(router, io_ok) ==
    IF ~io_ok THEN Exported("err", << >>, "io")
    ELSE
    LET config == TypescriptConfig
        head == <<Notice, "\n">>
                \o (IF router.config.bindings_header # "None"
                    THEN <<router.config.bindings_header, "\n">> ELSE << >>)
        queries_ts == generate_procedures_ts(config, router.queries.store)
        mutations_ts == generate_procedures_ts(config, router.mutations.store)
        subscriptions_ts == generate_procedures_ts(config, router.subscriptions.store)
        exports == TypeExports(config, router.type_map)
    IN  IF queries_ts.status = "panic"
        THEN Exported("panic", head, queries_ts.reason)
        ELSE IF mutations_ts.status = "panic"
        THEN Exported("panic", head, mutations_ts.reason)
        ELSE IF subscriptions_ts.status = "panic"
        THEN Exported("panic", head, subscriptions_ts.reason)
        ELSE Exported("ok",
                 head
                 \o <<"\nexport type Procedures = {\n    queries: ">> \o queries_ts.ts
                 \o <<",\n    mutations: ">> \o mutations_ts.ts
                 \o <<",\n    subscriptions: ">> \o subscriptions_ts.ts
                 \o <<"\n};", "\n">>
                 \o TypeExportLines(exports),
                 "none")

\* lines 158-201; io_ok: whether the file can be created
export_ts(router, io_ok) ==
    IF ~io_ok THEN Exported("err", << >>, "io")
    ELSE
    LET config == TypescriptConfig
        head == (IF router.config.bindings_header # "None"
                 THEN <<router.config.bindings_header, "\n">> ELSE << >>)
                \o <<Notice, "\n">>
        queries_ts == generate_procedures_ts(config, router.queries.store)
        mutations_ts == generate_procedures_ts(config, router.mutations.store)
        subscriptions_ts == generate_procedures_ts(config, router.subscriptions.store)
        exports == TypeExports(config, router.type_map)
    IN  IF queries_ts.status = "panic"
        THEN Exported("panic", head, queries_ts.reason)
        ELSE IF mutations_ts.status = "panic"
        THEN Exported("panic", head, mutations_ts.reason)
        ELSE IF subscriptions_ts.status = "panic"
        THEN Exported("panic", head, subscriptions_ts.reason)
        ELSE Exported("ok",
                 head
                 \o <<"\nexport type Procedures = {\n    queries: ">> \o queries_ts.ts
                 \o <<",\n    mutations: ">> \o mutations_ts.ts
                 \o <<",\n    subscriptions: ">> \o subscriptions_ts.ts
                 \o <<"\n};", "\n">>
                 \o TypeExportLines(exports),
                 "none")

\* variant of the file creation that keeps what the file held
FileCreateAppend(old) == old

\* line 163: File::create truncates the file at export_path
FileCreate(old) == << >>

\* the files and outcome after export_ts on a path that holds the file old
ExportOver(old, router, io_ok) ==
    LET out == export_ts(router, io_ok)
    IN  Exported(out.status,
                 IF io_ok THEN FileCreate(old.file) \o out.file ELSE old.file,
                 out.reason)

\* no export has been made
NoExport == [status |-> "none", file |-> << >>, reason |-> "none"]

\* Router with no operation and no header
EmptyRouter == MkRouter(<< >>, "None")

(***************************************************************************)
(* The builder chain as a state machine.  Each slot holds a router value;  *)
(* a call consumes its receiver and returns the new value into the same    *)
(* slot.  A router moved into nest / merge is gone, and its slot is bound  *)
(* to a Router2::new() for the next sub-chain.  build is terminal and ends *)
(* the run.                                                                *)
(* last[s] is the call that returned routers[s], with the values it        *)
(* consumed, and prev[s] the call before it in the same chain, so that     *)
(* routers[s] = prev-call(...).last-call(...).                             *)
(***************************************************************************)
NoCall == [op |-> "new", key |-> None, proc |-> None, func |-> None,
           pre |-> NewRouter, other |-> NewRouter]

NoBuild == [slot |-> None, result |-> [status |-> "none"]]

Init ==
    /\ routers = [s \in Slots |-> NewRouter]
    /\ last = [s \in Slots |-> NoCall]
    /\ prev = [s \in Slots |-> NoCall]
    /\ built = NoBuild
    /\ steps = 0
    /\ registry = EmptyRouter
    /\ calls = [c \in Calls |-> IdleCall]
    /\ exported = NoExport
    /\ export_log = << >>

Procedure(s, key, procedure) ==
    /\ steps < MaxSteps
    /\ built.slot = None
    /\ routers' = [routers EXCEPT ![s] = ProcedureOf(@, key, procedure)]
    /\ last' = [last EXCEPT ![s] = [NoCall EXCEPT !.op = "procedure", !.key = key,
                                       !.proc = procedure, !.pre = routers[s]]]
    /\ prev' = [prev EXCEPT ![s] = last[s]]
    /\ steps' = steps + 1
    /\ UNCHANGED <<built, lvars>>

Setup(s, func) ==
    /\ steps < MaxSteps
    /\ built.slot = None
    /\ routers' = [routers EXCEPT ![s] = SetupOf(@, func)]
    /\ last' = [last EXCEPT ![s] = [NoCall EXCEPT !.op = "setup", !.func = func,
                                       !.pre = routers[s]]]
    /\ prev' = [prev EXCEPT ![s] = last[s]]
    /\ steps' = steps + 1
    /\ UNCHANGED <<built, lvars>>

Nest(s, prefix, o) ==
    /\ steps < MaxSteps
    /\ built.slot = None
    /\ s # o
    /\ routers' = [routers EXCEPT ![s] = NestOf(@, prefix, routers[o]),
                                  ![o] = NewRouter]
    /\ last' = [last EXCEPT ![s] = [NoCall EXCEPT !.op = "nest", !.key = prefix,
                                       !.pre = routers[s], !.other = routers[o]],
                            ![o] = NoCall]
    /\ prev' = [prev EXCEPT ![s] = last[s], ![o] = NoCall]
    /\ steps' = steps + 1
    /\ UNCHANGED <<built, lvars>>

Merge(s, o) ==
    /\ steps < MaxSteps
    /\ built.slot = None
    /\ s # o
    /\ routers' = [routers EXCEPT ![s] = MergeOf(@, routers[o]),
                                  ![o] = NewRouter]
    /\ last' = [last EXCEPT ![s] = [NoCall EXCEPT !.op = "merge",
                                       !.pre = routers[s], !.other = routers[o]],
                            ![o] = NoCall]
    /\ prev' = [prev EXCEPT ![s] = last[s], ![o] = NoCall]
    /\ steps' = steps + 1
    /\ UNCHANGED <<built, lvars>>

\* the router of slot s is consumed by build; routers[s] keeps the value built
Build(s) ==
    /\ built.slot = None
    /\ built' = [slot |-> s, result |-> build(routers[s])]
    /\ UNCHANGED <<routers, last, prev, steps, lvars>>

Next ==
    \/ \E s \in Slots, key \in Segs, procedure \in Procs : Procedure(s, key, procedure)
    \/ \E s \in Slots, func \in Callbacks : Setup(s, func)
    \/ \E s \in Slots, o \in Slots, prefix \in Segs : Nest(s, prefix, o)
    \/ \E s \in Slots, o \in Slots : Merge(s, o)
    \/ \E s \in Slots : Build(s)

Spec == Init /\ [][Next]_vars

TypeOK ==
    /\ steps \in 0..MaxSteps
    /\ built.result.status \in {"none", "ok", "err", "panic"}

(***************************************************************************)
(* Properties of composition                                               *)
(***************************************************************************)
\* the full paths a router holds
Paths(r) == DOMAIN r.procedures

\* the paths of a set, each with the prefix segment prepended
Prefixed(prefix, S) == {<<prefix>> \o k : k \in S}

\* the dispatch keys of a set of paths
Keys(S) == {get_flattened_name(k) : k \in S}

\* the paths reported by a list of errors
Reported(errors) == {errors[i].DuplicateProcedures : i \in 1..Len(errors)}

\* C1: for routers a and b without recorded errors and with disjoint path
\* sets, a.merge(b).build() succeeds and the store holds exactly the union
\* of a's and b's operations: every path of a, every path of b, nothing else.
C1_MergeDisjointBuildsUnion ==
    \A s \in Slots :
        LET a == last[s].pre
            b == last[s].other
            r == build(routers[s])
        IN  (/\ last[s].op = "merge"
             /\ a.errors = << >> /\ b.errors = << >>
             /\ Paths(a) \cap Paths(b) = {})
            => /\ r.status = "ok"
               /\ Paths(routers[s]) = Paths(a) \cup Paths(b)
               /\ DOMAIN r.procedures = Keys(Paths(a) \cup Paths(b))

\* C2: errors accumulate and are never dropped: after a nest or merge the
\* errors build() returns contain every error the receiver held and every
\* error the absorbed router held (under the prefix, for nest), so build()
\* fails whenever one of the two held an error.
C2_ErrorsNeverDropped ==
    \A s \in Slots :
        LET a == last[s].pre
            b == last[s].other
            r == build(routers[s])
            held == Reported(a.errors) \cup
                    (IF last[s].op = "nest"
                     THEN Prefixed(last[s].key, Reported(b.errors))
                     ELSE Reported(b.errors))
        IN  (last[s].op \in {"nest", "merge"} /\ held # {})
            => /\ r.status = "err"
               /\ held \subseteq Reported(r.errors)

C4_NestPrefixesEveryPath ==
    \A s \in Slots :
        LET a == last[s].pre
            b == last[s].other
            prefix == last[s].key
            r == build(routers[s])
            want == Paths(a) \cup Prefixed(prefix, Paths(b))
        IN  (last[s].op = "nest" /\ ~HasTopLevel(a, prefix) /\ r.status = "ok")
            => /\ Paths(routers[s]) = want
               /\ DOMAIN r.procedures = Keys(want)
               /\ Cardinality(DOMAIN r.procedures) = Cardinality(want)
               /\ \A k \in Paths(b) :
                     r.procedures[get_flattened_name(<<prefix>> \o k)].inner
                        = b.procedures[k].inner
               /\ \A k \in Paths(a) :
                     r.procedures[get_flattened_name(k)].inner = a.procedures[k].inner

\* C5: nesting under a prefix that is already the top-level segment of a path
\* of the receiver fails even if the inner paths differ: the nest appends the
\* one error DuplicateProcedures([prefix]), absorbs none of other's procedures,
\* and build() returns the receiver's error list, which is exactly that one
\* error when the receiver held none before.
C5_NestSamePrefixRejected ==
    \A s \in Slots :
        LET a == last[s].pre
            prefix == last[s].key
            r == build(routers[s])
        IN  (last[s].op = "nest" /\ HasTopLevel(a, prefix))
            => /\ routers[s].errors =
                     a.errors \o <<DuplicateProcedures(<<prefix>>)>>
               /\ routers[s].procedures = a.procedures
               /\ r.status = "err"
               /\ r.errors = routers[s].errors
               /\ (a.errors = << >>)
                     => r.errors = <<DuplicateProcedures(<<prefix>>)>>

\* a rejected nest whose prefixed inner paths are all new to the receiver
C5_Witness ==
    \E s \in Slots :
        /\ last[s].op = "nest"
        /\ HasTopLevel(last[s].pre, last[s].key)
        /\ last[s].pre.errors = << >>
        /\ Paths(last[s].other) # {}
        /\ Prefixed(last[s].key, Paths(last[s].other)) \cap Paths(last[s].pre) = {}
        /\ build(routers[s]).status = "err"

\* the chain r.nest(p, r1).nest(p, r2) in slot s, with its first nest accepted
\* and no error held by r, r1 or r2, and disjoint inner paths in r1 and r2
NestedTwice(s) ==
    /\ prev[s].op = "nest" /\ last[s].op = "nest"
    /\ prev[s].key = last[s].key
    /\ ~HasTopLevel(prev[s].pre, prev[s].key)
    /\ prev[s].pre.errors = << >>
    /\ prev[s].other.errors = << >>
    /\ last[s].other.errors = << >>
    /\ Paths(prev[s].other) \cap Paths(last[s].other) = {}

\* C6 as stated: nesting twice under the same prefix from two routers r1 and r2
\* with disjoint inner paths succeeds: r.nest(p, r1).nest(p, r2).build()
\* returns a store containing the p-prefixed paths of both r1 and r2.
C6_NestTwiceSamePrefixSucceeds ==
    \A s \in Slots :
        LET r1 == prev[s].other
            r2 == last[s].other
            p == last[s].key
            r == build(routers[s])
        IN  (NestedTwice(s) /\ Paths(r1) # {} /\ Paths(r2) # {})
            => /\ r.status = "ok"
               /\ Keys(Prefixed(p, Paths(r1) \cup Paths(r2))) \subseteq DOMAIN r.procedures

\* C6 amended: nesting twice under the same prefix from two routers r1 and r2
\* with disjoint inner paths fails when r1 holds a procedure: the second nest
\* is rejected, none of r2's procedures is absorbed and build() returns
\* DuplicateProcedures([p]); it succeeds, with the p-prefixed paths of r2
\* retained, only when r1 held no procedure.
C6_NestTwiceSamePrefixRejected ==
    \A s \in Slots :
        LET r0 == prev[s].pre
            r1 == prev[s].other
            r2 == last[s].other
            p == last[s].key
            r == build(routers[s])
        IN  NestedTwice(s)
            => IF Paths(r1) # {}
               THEN /\ r.status = "err"
                    /\ r.errors = <<DuplicateProcedures(<<p>>)>>
                    /\ Paths(routers[s]) = Paths(r0) \cup Prefixed(p, Paths(r1))
               ELSE /\ r.status = "ok"
                    /\ Paths(routers[s]) = Paths(r0) \cup Prefixed(p, Paths(r2))

\* two nests under one prefix from two non-empty routers with disjoint paths
C6_Witness ==
    \E s \in Slots :
        /\ NestedTwice(s)
        /\ Paths(prev[s].other) # {}
        /\ Paths(last[s].other) # {}
        /\ build(routers[s]).status = "err"

\* C7: procedure(key, op) records exactly one DuplicateProcedures([key]) error
\* and does not register op when the receiver already has a procedure under
\* the top-level segment key; otherwise it registers op at the one-segment
\* path [key] and records no error.
C7_ProcedureRegistersOrRecords ==
    \A s \in Slots :
        LET a == last[s].pre
            key == last[s].key
        IN  (last[s].op = "procedure")
            => IF \E k \in Paths(a) : k[1] = key
               THEN /\ routers[s].errors =
                          a.errors \o <<DuplicateProcedures(<<key>>)>>
                    /\ routers[s].procedures = a.procedures
               ELSE /\ routers[s].errors = a.errors
                    /\ Paths(routers[s]) = Paths(a) \cup {<<key>>}
                    /\ routers[s].procedures[<<key>>] = last[s].proc
                    /\ \A k \in Paths(a) : routers[s].procedures[k] = a.procedures[k]

\* a procedure call rejected because key is the first segment of a longer path
C7_Witness ==
    \E s \in Slots :
        /\ last[s].op = "procedure"
        /\ HasTopLevel(last[s].pre, last[s].key)
        /\ <<last[s].key>> \notin Paths(last[s].pre)
        /\ Len(routers[s].errors) = Len(last[s].pre.errors) + 1

(***************************************************************************)
(* Properties of build                                                     *)
(***************************************************************************)
\* the router value that was built
Built == routers[built.slot]

\* C8: build() on a router whose error list is non-empty returns all of the
\* errors, in the order they were accumulated, and produces no store and no
\* type tree; no setup callback is run and no procedure is instantiated.
\* build() succeeds if and only if the error list is empty.
C8_BuildReturnsAllErrors ==
    (built.slot # None)
    => LET r == built.result
       IN  /\ (r.status = "ok") <=> (Built.errors = << >>)
           /\ (Built.errors # << >>)
                 => /\ r.status = "err"
                    /\ r.errors = Built.errors
                    /\ r.log = << >>
                    /\ r.procedures = None
                    /\ r.types = None
                    /\ r.state = None

\* a failed build of a router that holds two errors, a setup callback and a
\* procedure
C8_Witness ==
    /\ built.slot # None
    /\ built.result.status = "err"
    /\ Len(Built.errors) >= 2
    /\ Built.setup # << >>
    /\ Paths(Built) # {}

\* C9: on a successful build() every setup callback of the router runs exactly
\* once, in registration order, on the one state; all of them finish before
\* the state is frozen and before any procedure is instantiated, and every
\* procedure is instantiated, once, with that frozen state.
C9_SetupRunsInOrderBeforeFreeze ==
    (built.slot # None /\ built.result.status = "ok")
    => LET r == built.result
           n == Len(Built.setup)
       IN  /\ Len(r.log) = n + 1 + Cardinality(Paths(Built))
           /\ \A i \in 1..n :
                 r.log[i].ev = "setup" /\ r.log[i].arg = Built.setup[i]
           /\ r.log[n + 1].ev = "freeze"
           /\ \A i \in (n + 2)..Len(r.log) : r.log[i].ev = "instantiate"
           /\ {r.log[i].arg : i \in (n + 2)..Len(r.log)} = Paths(Built)
           /\ r.state = Built.setup
           /\ \A k \in DOMAIN r.procedures : r.procedures[k].state = r.state

\* a successful build of a router with two different callbacks and two procedures
C9_Witness ==
    /\ built.slot # None
    /\ built.result.status = "ok"
    /\ Len(Built.setup) >= 2
    /\ Built.setup[1] # Built.setup[2]
    /\ Cardinality(Paths(Built)) >= 2

\* C10 as stated: nest(prefix, other) appends other's setup callbacks to the
\* receiver's, so that the receiver's sequence after the call is its old
\* sequence followed by other's sequence.
C10_NestAppendsSetup ==
    \A s \in Slots :
        (last[s].op = "nest")
        => routers[s].setup = last[s].pre.setup \o last[s].other.setup

\* C10 amended: nest(prefix, other), when no path of the receiver has prefix as
\* its top-level segment, appends other's setup callbacks after the receiver's,
\* preserving their order: the sequence after the call is the old sequence
\* followed by other's.  A rejected nest leaves the sequence as it was.
C10_AcceptedNestAppendsSetup ==
    \A s \in Slots :
        (last[s].op = "nest")
        => IF \E k \in Paths(last[s].pre) : k[1] = last[s].key
           THEN routers[s].setup = last[s].pre.setup
           ELSE routers[s].setup = last[s].pre.setup \o last[s].other.setup

\* an accepted nest where both routers hold callbacks, and different ones
C10_Witness ==
    \E s \in Slots :
        /\ last[s].op = "nest"
        /\ ~HasTopLevel(last[s].pre, last[s].key)
        /\ last[s].pre.setup # << >>
        /\ last[s].other.setup # << >>
        /\ last[s].pre.setup # last[s].other.setup
        /\ Len(routers[s].setup) = Len(last[s].pre.setup) + Len(last[s].other.setup)

(***************************************************************************)
(* Properties of the type tree                                             *)
(***************************************************************************)
\* the leaves (TypesOrType::Type) and the groups (TypesOrType::Types) of a tree
Leaves(tree) == {k \in DOMAIN tree : tree[k].kind = "Type"}

Groups(tree) == {k \in DOMAIN tree : tree[k].kind = "Types"}

\* C11: for every router reachable by procedure, nest and merge calls, if
\* build() succeeds then no retained path is a proper prefix of another, no
\* leaf of the type tree is also an internal node, and the unreachable!()
\* branch of the tree construction is never executed.
C11_NoLeafAtInternalNode ==
    \A s \in Slots :
        LET r == build(routers[s])
        IN  /\ r.status # "panic"
            /\ (r.status = "ok")
                  => /\ \A p, q \in Paths(routers[s]) : ~IsProperPrefix(p, q)
                     /\ \A k \in Leaves(r.types.procedures) :
                           \A j \in DOMAIN r.types.procedures : ~IsProperPrefix(k, j)

\* a merge of two routers where a path of one is a proper prefix of a path
\* of the other, after which build() still succeeds
C11_Witness ==
    \E s \in Slots :
        /\ last[s].op = "merge"
        /\ \E p \in Paths(last[s].pre), q \in Paths(last[s].other) :
              IsProperPrefix(p, q) \/ IsProperPrefix(q, p)
        /\ build(routers[s]).status = "ok"

\* C12: after a successful build() the leaf paths of the type tree are exactly
\* the retained procedure paths, each leaf carries the type descriptor of the
\* operation registered at its path, and the groups are exactly the proper
\* prefixes of those paths.
C12_TreeLeavesAreThePaths ==
    (built.slot # None /\ built.result.status = "ok")
    => LET tree == built.result.types.procedures
       IN  /\ Leaves(tree) = Paths(Built)
           /\ \A k \in Paths(Built) : tree[k].ty = Built.procedures[k].ty
           /\ Groups(tree) = UNION {Parents(k) : k \in Paths(Built)}

\* a successful build of a router that holds a nested path and a second path
C12_Witness ==
    /\ built.slot # None
    /\ built.result.status = "ok"
    /\ \E k \in Paths(Built) : Len(k) >= 2
    /\ Cardinality(Paths(Built)) >= 2
    /\ Cardinality({Built.procedures[k].ty : k \in Paths(Built)}) >= 2

(***************************************************************************)
(* Calls on a built legacy router.  The router is built before the first   *)
(* call (Router::arced) and every entry point borrows it as &self.  A call *)
(* runs to its first suspension in one step and is resumed in another, so  *)
(* that calls interleave at their await points.                            *)
(***************************************************************************)
\* operations as the dispatcher sees them: any handler behaviour, one type
DispatchShapes ==
    {[behaviour |-> b, arg_ty |-> "Unit", result_ty |-> "String"] : b \in Behaviours}

DispatchInit ==
    /\ routers = [s \in Slots |-> NewRouter]
    /\ last = [s \in Slots |-> NoCall]
    /\ prev = [s \in Slots |-> NoCall]
    /\ built = NoBuild
    /\ steps = 0
    /\ registry \in Routers(DispatchShapes, {"None"})
    /\ calls = [c \in Calls |-> IdleCall]
    /\ exported = NoExport
    /\ export_log = << >>

ExecStart(c, kind, key, input) ==
    /\ calls[c].pc = "idle"
    /\ calls' = [calls EXCEPT ![c] =
                    ExecBegin(registry, [entry |-> "exec", kind |-> kind,
                                         key |-> key, input |-> input])]
    /\ UNCHANGED <<registry, exported, export_log, bvars>>

ExecResume(c) ==
    /\ calls[c].pc = "awaiting"
    /\ calls[c].req.entry = "exec"
    /\ calls' = [calls EXCEPT ![c] = ExecEnd(calls[c])]
    /\ UNCHANGED <<registry, exported, export_log, bvars>>

ExecSubscriptionStart(c, key, input) ==
    /\ calls[c].pc = "idle"
    /\ calls' = [calls EXCEPT ![c] =
                    ExecSubscriptionBegin(registry,
                        [entry |-> "exec_subscription", kind |-> "Subscription",
                         key |-> key, input |-> input])]
    /\ UNCHANGED <<registry, exported, export_log, bvars>>

ExecSubscriptionResume(c) ==
    /\ calls[c].pc = "awaiting"
    /\ calls[c].req.entry = "exec_subscription"
    /\ calls' = [calls EXCEPT ![c] = ExecSubscriptionEnd(calls[c])]
    /\ UNCHANGED <<registry, exported, export_log, bvars>>

ExecQueryStart(c, key, arg) ==
    /\ calls[c].pc = "idle"
    /\ calls' = [calls EXCEPT ![c] =
                    ExecQueryBegin(registry, [entry |-> "exec_query", kind |-> "Query",
                                              key |-> key, input |-> arg])]
    /\ UNCHANGED <<registry, exported, export_log, bvars>>

ExecQueryResume(c) ==
    /\ calls[c].pc = "awaiting"
    /\ calls[c].req.entry = "exec_query"
    /\ calls' = [calls EXCEPT ![c] = ExecQueryEnd(calls[c])]
    /\ UNCHANGED <<registry, exported, export_log, bvars>>

DispatchNext ==
    \/ \E c \in Calls, kind \in {"Query", "Mutation"}, key \in OpKeys, input \in OptInputs :
          ExecStart(c, kind, key, input)
    \/ \E c \in Calls : ExecResume(c)
    \/ \E c \in Calls, key \in OpKeys, input \in OptInputs :
          ExecSubscriptionStart(c, key, input)
    \/ \E c \in Calls : ExecSubscriptionResume(c)
    \/ \E c \in Calls, key \in OpKeys, arg \in ArgInputs : ExecQueryStart(c, key, arg)
    \/ \E c \in Calls : ExecQueryResume(c)

DispatchSpec == DispatchInit /\ [][DispatchNext]_vars

DispatchTypeOK ==
    \A c \in Calls : calls[c].pc \in {"idle", "awaiting", "done"}

(***************************************************************************)
(* Properties of dispatch                                                  *)
(***************************************************************************)
\* the store an entry point of the legacy router looks the key up in
OwnStore(req) ==
    CASE req.entry = "exec_subscription" -> registry.subscriptions.store
      [] req.kind = "Mutation" -> registry.mutations.store
      [] OTHER -> registry.queries.store

\* the calls made through Router::exec / Router::exec_subscription
LegacyCalls == {c \in Calls : calls[c].req.entry \in {"exec", "exec_subscription"}}

\* the router holds no operation
IsEmptyRouter ==
    /\ DOMAIN registry.queries.store = {}
    /\ DOMAIN registry.mutations.store = {}
    /\ DOMAIN registry.subscriptions.store = {}

\* C13: on a freshly built empty registry every call fails with
\* OperationNotFound, for every kind, key and input, through the query /
\* mutation entry point and through the subscription entry point alike, and
\* no handler is invoked.
C13_EmptyRegistryNotFound ==
    IsEmptyRouter
    => \A c \in Calls :
          /\ calls[c].pc # "awaiting"
          /\ (calls[c].pc = "done")
                => /\ calls[c].result.tag = "Err"
                   /\ calls[c].result.body.type = "OperationNotFound"
                   /\ (c \in LegacyCalls)
                         => calls[c].result.body = OperationNotFound(calls[c].req.key)
                   /\ calls[c].invoked = << >>

\* both legacy entry points have returned on an empty registry
C13_Witness ==
    /\ IsEmptyRouter
    /\ \E c, d \in Calls :
          /\ calls[c].pc = "done" /\ calls[c].req.entry = "exec"
          /\ calls[d].pc = "done" /\ calls[d].req.entry = "exec_subscription"

\* C14 as stated: exec (kind Query or Mutation) with the key of a registered
\* subscription fails with UnsupportedMethod, and exec_subscription with the
\* key of a registered query or mutation fails with UnsupportedMethod (the
\* key being registered under the other kind only, with the usual outcome).
C14_WrongEntryUnsupported ==
    \A c \in LegacyCalls :
        LET req == calls[c].req
            subs == registry.subscriptions.store
            qm(k) == (IF k \in DOMAIN registry.queries.store
                      THEN {registry.queries.store[k]} ELSE {}) \cup
                     (IF k \in DOMAIN registry.mutations.store
                      THEN {registry.mutations.store[k]} ELSE {})
            other == IF req.entry = "exec"
                     THEN (IF req.key \in DOMAIN subs /\ subs[req.key].exec.behaviour = "stream"
                           THEN {subs[req.key]} ELSE {})
                     ELSE {p \in qm(req.key) : p.exec.behaviour = "value"}
        IN  (calls[c].pc = "done" /\ other # {} /\ req.key \notin DOMAIN OwnStore(req))
            => calls[c].result = Err(UnsupportedMethod(req.key))

\* C14 amended: each entry point looks the key up in its own store only: exec
\* with a key registered only as a subscription, and exec_subscription with a
\* key registered only as a query or mutation, fail with OperationNotFound(key).
\* UnsupportedMethod(key) is returned exactly when the operation found in the
\* entry point's own store resolves to the other outcome: a Stream for exec, a
\* Value for exec_subscription.
C14_WrongEntryNotFound ==
    \A c \in LegacyCalls :
        LET req == calls[c].req
            own == OwnStore(req)
            wrong == IF req.entry = "exec" THEN "stream" ELSE "value"
        IN  (calls[c].pc = "done")
            => /\ (req.key \notin DOMAIN own)
                     => calls[c].result = Err(OperationNotFound(req.key))
               /\ (calls[c].result = Err(UnsupportedMethod(req.key)))
                     <=> (req.key \in DOMAIN own /\ own[req.key].exec.behaviour = wrong)

\* exec has returned for a key that is registered as a subscription only
C14_Witness ==
    \E c \in LegacyCalls :
        /\ calls[c].pc = "done"
        /\ calls[c].req.entry = "exec"
        /\ calls[c].req.key \in DOMAIN registry.subscriptions.store
        /\ registry.subscriptions.store[calls[c].req.key].exec.behaviour = "stream"
        /\ calls[c].req.key \notin DOMAIN OwnStore(calls[c].req)
        /\ calls[c].result.body.type = "OperationNotFound"

\* C15: when the key is found and the handler completes without error, exec
\* returns the value if the outcome is a Value and fails with
\* UnsupportedMethod(key) if it is a Stream; exec_subscription returns the
\* stream if the outcome is a Stream and fails with UnsupportedMethod(key) if
\* it is a Value.
C15_OutcomeMatchesEntry ==
    \A c \in LegacyCalls :
        LET req == calls[c].req
            own == OwnStore(req)
            outcome == [type  |-> IF own[req.key].exec.behaviour = "value"
                                  THEN "Value" ELSE "Stream",
                        by    |-> <<req.kind, req.key>>,
                        input |-> IF req.input = "None" THEN "null" ELSE req.input,
                        req   |-> [kind |-> req.kind, path |-> req.key]]
        IN  (/\ calls[c].pc = "done"
             /\ req.key \in DOMAIN own
             /\ own[req.key].exec.behaviour \in {"value", "stream"})
            => IF (req.entry = "exec") <=> (outcome.type = "Value")
               THEN calls[c].result = Ok(outcome)
               ELSE calls[c].result = Err(UnsupportedMethod(req.key))

\* exec has returned a value while exec_subscription was refused one
C15_Witness ==
    \E c, d \in LegacyCalls :
        /\ calls[c].pc = "done" /\ calls[c].req.entry = "exec"
        /\ calls[c].result.tag = "Ok"
        /\ calls[d].pc = "done" /\ calls[d].req.entry = "exec_subscription"
        /\ calls[d].req.key \in DOMAIN OwnStore(calls[d].req)
        /\ OwnStore(calls[d].req)[calls[d].req.key].exec.behaviour = "value"
        /\ calls[d].result.tag = "Err"

\* C16: dispatch looks the key up only in the store of the requested kind:
\* a call fails with OperationNotFound(key) if and only if key is absent from
\* that store, whether or not the key is registered under another kind; on a
\* miss no handler is invoked, on a hit the handler of that store is.
C16_LookupInOwnPartition ==
    \A c \in LegacyCalls :
        LET req == calls[c].req
            own == OwnStore(req)
        IN  /\ (calls[c].pc = "done")
                  => /\ (calls[c].result = Err(OperationNotFound(req.key)))
                           <=> (req.key \notin DOMAIN own)
                     /\ calls[c].invoked =
                           IF req.key \in DOMAIN own
                           THEN <<<<req.kind, req.key>>>> ELSE << >>
            /\ (calls[c].pc = "awaiting")
                  => /\ req.key \in DOMAIN own
                     /\ calls[c].invoked = <<<<req.kind, req.key>>>>

\* a miss on a key that is registered under both other kinds
C16_Witness ==
    \E c \in LegacyCalls :
        /\ calls[c].pc = "done"
        /\ calls[c].req.kind = "Query"
        /\ calls[c].req.key \notin DOMAIN registry.queries.store
        /\ calls[c].req.key \in DOMAIN registry.mutations.store
        /\ calls[c].req.key \in DOMAIN registry.subscriptions.store
        /\ calls[c].invoked = << >>

\* C17: when the key is found and the handler fails, at the call or while its
\* outcome is awaited, exec and exec_subscription return that handler error
\* unchanged, never OperationNotFound or UnsupportedMethod.
C17_HandlerErrorVerbatim ==
    \A c \in LegacyCalls :
        LET req == calls[c].req
            own == OwnStore(req)
            b == own[req.key].exec.behaviour
        IN  (/\ calls[c].pc = "done"
             /\ req.key \in DOMAIN own
             /\ b \in {"call_err", "await_err"})
            => /\ calls[c].result.tag = "Err"
               /\ calls[c].result.body.type = "HandlerError"
               /\ calls[c].result.body.by = <<req.kind, req.key>>
               /\ calls[c].result.body.stage = (IF b = "call_err" THEN "call" ELSE "await")

\* one call failed at the handler call, another while the outcome was awaited
C17_Witness ==
    \E c, d \in LegacyCalls :
        /\ calls[c].pc = "done" /\ calls[d].pc = "done"
        /\ calls[c].result.tag = "Err" /\ calls[d].result.tag = "Err"
        /\ calls[c].result.body.type = "HandlerError"
        /\ calls[d].result.body.type = "HandlerError"
        /\ calls[c].result.body.stage = "call"
        /\ calls[d].result.body.stage = "await"
        /\ calls[c].req.entry # calls[d].req.entry

\* what a call made through exec / exec_subscription returns when it runs
\* alone on the router
Alone(req) ==
    LET own == OwnStore(req)
        b == own[req.key].exec.behaviour
        by == <<req.kind, req.key>>
    IN  IF req.key \notin DOMAIN own THEN Err(OperationNotFound(req.key))
        ELSE IF b = "call_err" THEN Err(HandlerError(by, "call"))
        ELSE IF b = "await_err" THEN Err(HandlerError(by, "await"))
        ELSE IF (b = "value") <=> (req.entry = "exec")
        THEN Ok([type  |-> IF b = "value" THEN "Value" ELSE "Stream",
                 by    |-> by,
                 input |-> IF req.input = "None" THEN "null" ELSE req.input,
                 req   |-> [kind |-> req.kind, path |-> req.key]])
        ELSE Err(UnsupportedMethod(req.key))

\* C18: any number of exec / exec_subscription calls may run concurrently on
\* the built router, interleaved at their suspensions: the router is never
\* changed by a call, and each call returns what it returns when run alone.
C18_ConcurrentCallsIndependent ==
    /\ [][registry' = registry]_vars
    /\ [](\A c \in LegacyCalls :
             (calls[c].pc = "done") => calls[c].result = Alone(calls[c].req))

\* a call has returned while another call, started before it returned, is
\* still suspended
C18_Witness ==
    \E c, d \in LegacyCalls :
        /\ c # d
        /\ calls[c].pc = "done"
        /\ calls[c].result.tag = "Ok"
        /\ calls[d].pc = "awaiting"
        /\ calls[c].req.key = calls[d].req.key

(***************************************************************************)
(* The export of a built router                                            *)
(***************************************************************************)
ExportShapes ==
    {[behaviour |-> "value", arg_ty |-> a, result_ty |-> r] :
        a \in ArgTypes, r \in ResultTypes}

ExportInit ==
    /\ routers = [s \in Slots |-> NewRouter]
    /\ last = [s \in Slots |-> NoCall]
    /\ prev = [s \in Slots |-> NoCall]
    /\ built = NoBuild
    /\ steps = 0
    /\ registry \in Routers(ExportShapes, Headers)
    /\ calls = [c \in Calls |-> IdleCall]
    /\ exported = NoExport
    /\ export_log = << >>

ExportTs(io_ok) ==
    /\ Len(export_log) < MaxExports
    /\ exported' = ExportOver(exported, registry, io_ok)
    /\ export_log' = Append(export_log, [io_ok  |-> io_ok,
                                         status |-> exported'.status,
                                         reason |-> exported'.reason,
                                         file   |-> exported'.file])
    /\ UNCHANGED <<registry, calls, bvars>>

ExportNext == \E io_ok \in BOOLEAN : ExportTs(io_ok)

ExportSpec == ExportInit /\ [][ExportNext]_vars

\* the position of the piece tok in a text
IndexOf(text, tok) == CHOOSE i \in 1..Len(text) : text[i] = tok /\ \A j \in 1..(i-1) : text[j] # tok

\* the pieces of a text between the piece from and the piece to
Between(text, from, to) == SubSeq(text, IndexOf(text, from) + 1, IndexOf(text, to) - 1)

\* the union written for a kind in the exported file, and the store it renders
UnionOf(kind) ==
    CASE kind = "Query" ->
            Between(exported.file, "\nexport type Procedures = {\n    queries: ",
                    ",\n    mutations: ")
      [] kind = "Mutation" ->
            Between(exported.file, ",\n    mutations: ", ",\n    subscriptions: ")
      [] OTHER -> Between(exported.file, ",\n    subscriptions: ", "\n};")

StoreOfKind(kind) ==
    CASE kind = "Query" -> registry.queries.store
      [] kind = "Mutation" -> registry.mutations.store
      [] OTHER -> registry.subscriptions.store

\* the members of a union: the runs of pieces between the " | " pieces
RECURSIVE Members(_)
Members(union) ==
    IF \A i \in 1..Len(union) : union[i] # " | " THEN <<union>>
    ELSE LET i == IndexOf(union, " | ")
         IN  <<SubSeq(union, 1, i - 1)>> \o Members(SubSeq(union, i + 1, Len(union)))

\* a member that is a record { key: "..", input: .., result: .. }
IsRecordTs(m) ==
    /\ Len(m) = 7
    /\ m[1] = "\n        { key: \""
    /\ m[3] = "\", input: "
    /\ m[5] = ", result: "
    /\ m[7] = " }"

\* C19: in the exported document each kind is rendered from its own store: a
\* kind with no operation is rendered as `never`, a kind with n >= 1
\* operations as a union of exactly n records, one for each registered key
\* and carrying that key.
C19_UnionPerKind ==
    (exported.status = "ok")
    => \A kind \in Kinds :
          LET store == StoreOfKind(kind)
              members == Members(UnionOf(kind))
          IN  IF DOMAIN store = {}
              THEN UnionOf(kind) = <<"never">>
              ELSE /\ Len(members) = Cardinality(DOMAIN store)
                   /\ \A i \in 1..Len(members) : IsRecordTs(members[i])
                   /\ {members[i][2] : i \in 1..Len(members)} = DOMAIN store

\* a document with one kind of two operations and a kind of none
C19_Witness ==
    /\ exported.status = "ok"
    /\ \E kind, none \in Kinds :
          /\ Cardinality(DOMAIN StoreOfKind(kind)) = 2
          /\ DOMAIN StoreOfKind(none) = {}
          /\ Len(Members(UnionOf(kind))) = 2

\* the record written for the operation key of a kind
RecordOf(kind, key) ==
    LET members == Members(UnionOf(kind))
    IN  members[CHOOSE i \in 1..Len(members) : members[i][2] = key]

C24_OneEntryPerRetainedPath ==
    (built.slot # None /\ built.result.status = "ok")
    => /\ \A p, q \in Paths(Built) :
             (p # q) => get_flattened_name(p) # get_flattened_name(q)
       /\ Cardinality(DOMAIN built.result.procedures) = Cardinality(Paths(Built))
       /\ \A p \in Paths(Built) :
             built.result.procedures[get_flattened_name(p)].inner
                = Built.procedures[p].inner

\* C25: a step rejected as a duplicate changes nothing but the error list:
\* after procedure(key, op) or nest(prefix, other) on a receiver that has a
\* path under that top-level segment, the receiver's procedure map and its
\* setup sequence are what they were and its error list is the old list with
\* exactly one entry appended at the end.
C25_RejectedStepFrame ==
    \A s \in Slots :
        LET a == last[s].pre
            b == routers[s]
        IN  (last[s].op \in {"procedure", "nest"} /\ HasTopLevel(a, last[s].key))
            => /\ b.procedures = a.procedures
               /\ b.setup = a.setup
               /\ Len(b.errors) = Len(a.errors) + 1
               /\ SubSeq(b.errors, 1, Len(a.errors)) = a.errors

\* a rejected nest whose argument carried procedures and callbacks, on a
\* receiver that had callbacks of its own
C25_Witness ==
    \E s \in Slots :
        /\ last[s].op = "nest"
        /\ HasTopLevel(last[s].pre, last[s].key)
        /\ last[s].other.setup # << >>
        /\ Paths(last[s].other) # {}
        /\ last[s].pre.setup # << >>
        /\ Len(routers[s].errors) = Len(last[s].pre.errors) + 1

(***************************************************************************)
(* Properties of repeated export                                           *)
(***************************************************************************)
\* the place of a key in the iteration order of a store
KeyRank(key) == IndexOf(KeyOrder, key)

\* C21: rendering is deterministic: two export_log of the same built router with
\* the same configuration end the same way and leave the same file, and in
\* the file the records of each kind appear in key order, whatever the order
\* the operations were registered in.
C21_RenderDeterministic ==
    /\ \A i, j \in 1..Len(export_log) :
          (export_log[i].io_ok /\ export_log[j].io_ok)
          => /\ export_log[i].status = export_log[j].status
             /\ export_log[i].reason = export_log[j].reason
             /\ export_log[i].file = export_log[j].file
    /\ (exported.status = "ok")
          => \A kind \in Kinds :
                LET members == Members(UnionOf(kind))
                IN  (DOMAIN StoreOfKind(kind) # {})
                    => \A i, j \in 1..Len(members) :
                          (i < j) => KeyRank(members[i][2]) < KeyRank(members[j][2])

\* two completed export_log of a router that has a kind of two operations
C21_Witness ==
    /\ Len(export_log) = 2
    /\ export_log[1].io_ok /\ export_log[2].io_ok
    /\ export_log[1].status = "ok" /\ export_log[2].status = "ok"
    /\ \E kind \in Kinds : Cardinality(DOMAIN StoreOfKind(kind)) = 2

(***************************************************************************)
(* Properties of the exported document                                     *)
(***************************************************************************)
\* how many times the piece tok is in a text
Count(text, tok) == Cardinality({i \in 1..Len(text) : text[i] = tok})

\* the declaration of a named type
Declaration(ty) == "export type " \o ty \o " = string"

\* C22: the exported document holds, in this order: the caller's header if
\* and only if one is configured, the generated-file notice, one umbrella
\* type with the queries, mutations and subscriptions unions in that order,
\* and the declarations of the auxiliary types; each part is there once.
C22_DocumentOrder ==
    (exported.status = "ok")
    => LET file == exported.file
           header == registry.config.bindings_header
           off == IF header = "None" THEN 0 ELSE 2
           open == "\nexport type Procedures = {\n    queries: "
           close == "\n};"
           decl == SubSeq(file, IndexOf(file, close) + 2, Len(file))
       IN  /\ (header # "None") => (file[1] = header /\ Count(file, header) = 1)
           /\ file[off + 1] = Notice
           /\ Count(file, Notice) = 1
           /\ IndexOf(file, open) = off + 3
           /\ \A tok \in {open, ",\n    mutations: ", ",\n    subscriptions: ", close} :
                 Count(file, tok) = 1
           /\ IndexOf(file, open) < IndexOf(file, ",\n    mutations: ")
           /\ IndexOf(file, ",\n    mutations: ") < IndexOf(file, ",\n    subscriptions: ")
           /\ IndexOf(file, ",\n    subscriptions: ") < IndexOf(file, close)
           /\ \A kind \in Kinds :
                 UnionOf(kind) = generate_procedures_ts(TypescriptConfig,
                                                        StoreOfKind(kind)).ts
           /\ Len(decl) = 3 * Len(registry.type_map)
           /\ \A i \in 1..Len(registry.type_map) :
                 /\ decl[3 * i - 1] = Declaration(registry.type_map[i])
                 /\ Count(file, Declaration(registry.type_map[i])) = 1

\* a document with a header and the declaration of an auxiliary type
C22_Witness ==
    /\ exported.status = "ok"
    /\ registry.config.bindings_header # "None"
    /\ registry.type_map # << >>
    /\ \E kind \in Kinds : DOMAIN StoreOfKind(kind) # {}

\* an operation of the router has a bigint in its input or result type
HasBigInt ==
    \E kind \in Kinds : \E key \in DOMAIN StoreOfKind(kind) :
        \/ StoreOfKind(kind)[key].ty.arg_ty = "i64"
        \/ StoreOfKind(kind)[key].ty.result_ty = "i64"

\* C23: when an operation's input or result type holds a bigint, the export
\* call aborts and returns the configured reason to the caller as an export
\* error value; the router is what it was, and a later export ends as the
\* first one did.
C23_BigIntReturnsExportError ==
    HasBigInt
    => \A i \in 1..Len(export_log) :
          export_log[i].io_ok
          => /\ export_log[i].status = "err"
             /\ export_log[i].reason = BigIntReason
             /\ export_log[i].file = export_log[1].file

====
